---------------------------- MODULE Spec2Model ----------------------------
(***************************************************************************)
(* Model of mp3me's DownloadManager (src/mp3me.py): the download queue,    *)
(* the dispatch loop, the metadata expansion tasks, the per-entry download *)
(* threads (song / release / artist), the per-song leaf tasks, and the     *)
(* pure helper sanitize_filename.                                          *)
(*                                                                         *)
(* Every `with self.lock:` block is one atomic step.  Local computation    *)
(* between two lock blocks is folded into the neighbouring step when it    *)
(* touches no shared data.  External calls (catalog resolver, yt-dlp,      *)
(* filesystem) are nondeterministic choices over their possible outcomes.  *)
(***************************************************************************)
EXTENDS Integers, Sequences, FiniteSets, Bags, TLC

(***************************************************************************)
(* Bounds of the model.                                                    *)
(***************************************************************************)
MaxThreads == 2
\* largest settings.threads explored

MaxQueue == 2
\* largest total Weight of the items handed to add_to_queue in one session

MaxClock == 1
\* int(time.time()) ranges over 0..MaxClock

MaxExp == 2
\* largest number of expansion tasks in flight for one entry

(***************************************************************************)
(* The catalog: the work items a caller can hand to add_to_queue.          *)
(***************************************************************************)
SongItems == {"s1"}

ReleaseItems == {"R1", "R2"}

ArtistItems == {"A2"}

Items == SongItems \cup ReleaseItems \cup ArtistItems

\* ContentType of an item (ContentType enum)
Kind(item) ==
    IF item \in SongItems THEN "song"
    ELSE IF item \in ReleaseItems THEN "release"
    ELSE IF item \in ArtistItems THEN "artist"
    ELSE "playlist"

ReleaseKinds == {"album", "release", "single"}

\* State of a song's url/video_id pair as _download_song and
\* _download_release test it: "ok" (usable, or repairable from video_id) or
\* "placeholder" ("watch?v=song_" in url, no video_id).
Url(s) == IF s = "r1c" THEN "placeholder" ELSE "ok"

SongRec(s, sel) == [s |-> s, sel |-> sel]

\* item.songs of each release item when it is handed to add_to_queue
InitSongs ==
    [r \in ReleaseItems |->
        IF r = "R1"
        THEN << SongRec("r1a", TRUE), SongRec("r1b", FALSE), SongRec("r1c", TRUE) >>
        ELSE << >>]

\* What the catalog holds for a release (ytmusic.get_album): its tracks,
\* every one selected (fetch_release_details builds Song(selected=True)).
CatalogSongs(r) ==
    IF r = "R2" THEN << SongRec("r2a", TRUE), SongRec("r2b", TRUE) >>
    ELSE IF r = "Rc" THEN << SongRec("c1", TRUE) >>
    ELSE IF r = "Rd" THEN << SongRec("d1", TRUE) >>
    ELSE << >>

\* fetch_release_details: returns the tracks, or an empty list when the
\* lookup fails (its own try/except returns {"songs": []}); never raises.
fetch_release_details(r) == { << >>, CatalogSongs(r) }

RelRec(r, sl) == [r |-> r, songs |-> sl]

\* What the catalog holds for an artist (ytmusic.get_artist)
CatalogReleases(a) == IF a = "A2" THEN << "Rc", "Rd" >> ELSE << >>

\* fetch_artist_details: fresh Release objects without songs, or an empty
\* list when the lookup fails; never raises.
fetch_artist_details(a) ==
    { << >>, [i \in 1..Len(CatalogReleases(a)) |-> RelRec(CatalogReleases(a)[i], << >>)] }

\* tool-reported percentages parsed from yt-dlp's "[download] NN%" lines
ToolPercents == {60}

\* The work items one session enqueues (Init picks one of these).
Menus == { {"s1"}, {"R1"}, {"R2"}, {"A2"} }

\* Share of the queue bound an entry takes: a collection counts double.
Weight(item) == IF item \in SongItems THEN 1 ELSE 2

(***************************************************************************)
(* State.                                                                  *)
(***************************************************************************)
VARIABLES
    download_queue,     \* id -> DownloadItem (status, progress, counters, error flag)
    order,              \* key order of the download_queue dict
    active_downloads,   \* set of ids
    threads,            \* settings.threads
    workers,            \* max_workers of executor and of song_executor
    network_connected,  \* flag written by the network monitor
    clock,              \* int(time.time())
    enq,                \* total Weight of the items enqueued so far
    menu,               \* the items this session enqueues
    songs,              \* release item -> item.songs
    releases,           \* artist item -> item.releases (Release objects with their songs)
    disk,               \* songs whose output file exists
    mgr,                \* _download_manager_loop: position and next_downloads
    execQ,              \* work queue of self.executor
    exp,                \* running _fetch_metadata_thread tasks (bag of ids)
    task,               \* running _download_thread tasks: id -> locals
    leaf,               \* futures of the running release download: <<id, song>> -> state
    orphans,            \* leaf tasks whose release download has returned (bag)
    songQ,              \* work queue of self.song_executor
    emitted,            \* the signals emitted by the last step
    ui,                 \* the download widgets of the main window: id -> status label
    sanIn,              \* input of sanitize_filename
    sanOut,             \* its result
    dupIn,              \* input of _check_file_exists
    dupOut,             \* its result
    lock,               \* self.lock: the thread holding it and the threads blocked on it
    running             \* self.running

vars == << download_queue, order, active_downloads, threads, workers,
           network_connected, clock, enq, menu, songs, releases,
           disk, mgr, execQ, exp, task, leaf, orphans, songQ, emitted, ui,
           sanIn, sanOut, dupIn, dupOut, lock, running >>


itemVars == << songs, releases >>

\* the variables of the pure helpers
sanVars == << sanIn, sanOut, dupIn, dupOut >>

settingVars == << threads, workers, menu >>

lockVars == << lock, running >>

(***************************************************************************)
(* Helpers.                                                                *)
(***************************************************************************)
NoId == << "-", 0 >>

ItemOf(id) == id[1]

KindOf(id) == Kind(ItemOf(id))

Range(f) == { f[x] : x \in DOMAIN f }

Status == {"QUEUED", "DOWNLOADING", "PROCESSING", "COMPLETED", "FAILED",
           "CANCELLED", "PENDING"}

\* DownloadItem(item, status, ...) with the dataclass defaults
DownloadItem(st, total) ==
    [status |-> st, progress |-> 0, completed_songs |-> 0,
     total_songs |-> total, err |-> FALSE]

\* signals.download_status_changed.emit(id, status, message)
StatusEv(id, st, msg) ==
    [sig |-> "status", id |-> id, st |-> st, pct |-> -1, msg |-> msg, txt |-> ""]

\* signals.download_progress.emit(id, percent, text); txt is the fixed part
\* of the text
ProgressEv(id, pct, txt) ==
    [sig |-> "progress", id |-> id, st |-> "", pct |-> pct, msg |-> << >>, txt |-> txt]

\* signals.metadata_fetched.emit(id, item)
MetaEv(id) ==
    [sig |-> "metadata", id |-> id, st |-> "", pct |-> -1, msg |-> << >>, txt |-> ""]

\* signals.network_status_changed.emit(connected)
NetEv(c) ==
    [sig |-> "network", id |-> NoId, st |-> IF c THEN "up" ELSE "down",
     pct |-> -1, msg |-> << >>, txt |-> ""]

\* update_download_status for one signal: a QUEUED or PENDING status makes
\* a widget if the entry is in the queue; the status label of the widget
\* found under the id is set to the status.  (A second widget made under
\* an id that already has one is never the one found, so it is left out.)
Deliver1(u, e, q) ==
    IF e.sig # "status" THEN u
    ELSE LET u1 == IF e.st \in { "QUEUED", "PENDING" } /\ e.id \in DOMAIN q /\ e.id \notin DOMAIN u
                   THEN [x \in DOMAIN u \cup { e.id } |-> IF x = e.id THEN q[e.id].status ELSE u[x]]
                   ELSE u
         IN IF e.id \in DOMAIN u1 THEN [u1 EXCEPT ![e.id] = e.st] ELSE u1

RECURSIVE Deliver(_, _, _)
\* the main window handles the signals of a step, in the order emitted
Deliver(u, evs, q) ==
    IF evs = << >> THEN u ELSE Deliver(Deliver1(u, Head(evs), q), Tail(evs), q)

\* [song for song in songs if song.selected]
SelectedOf(sl) == SelectSeq(sl, LAMBDA x : x.sel)

\* selected_songs of _download_release: the selected songs, or all of them
\* when none is selected
selected_songs(sl) == IF SelectedOf(sl) # << >> THEN SelectedOf(sl) ELSE sl

RECURSIVE SumLens(_)
\* sum(len(release.songs) if release.songs else 1 for release in releases)
SumLens(rl) ==
    IF rl = << >> THEN 0
    ELSE (IF Head(rl).songs # << >> THEN Len(Head(rl).songs) ELSE 1) + SumLens(Tail(rl))

\* (completed / total) * 100 if total else 0, in whole percent
Percent(completed, total) == IF total > 0 THEN (completed * 100) \div total ELSE 0


\* dict.pop(id) / del on a function
Without(f, id) == [x \in DOMAIN f \ {id} |-> f[x]]

\* d[id] = v on a function
With(f, id, v) == [x \in DOMAIN f \cup {id} |-> IF x = id THEN v ELSE f[x]]

\* the ids a caller can name in this session
Ids == { << i, c >> : i \in menu, c \in 0..MaxClock }

\* number of _fetch_metadata_thread tasks submitted for id and not finished
InFlight(id) ==
    Cardinality({ i \in 1..Len(execQ) : execQ[i] = << "meta", id >> }) + CopiesIn(id, exp)

\* threads of self.executor that are running a task
BusyWorkers == Cardinality(DOMAIN task) + BagCardinality(exp)

\* threads of self.song_executor that are running a leaf
BusySongWorkers ==
    Cardinality({ k \in DOMAIN leaf : leaf[k].pc \notin {"queued", "done"} })
    + BagCardinality(orphans)
    - Cardinality({ i \in 1..Len(songQ) : ~songQ[i].own })

(***************************************************************************)
(* Initial state: DownloadManager.__init__                                 *)
(***************************************************************************)
ProgramInit ==
    /\ download_queue = << >>
    /\ order = << >>
    /\ active_downloads = {}
    /\ threads \in 1..MaxThreads
    /\ workers = threads
    /\ network_connected = TRUE
    /\ clock = 0
    /\ enq = 0
    /\ menu \in Menus
    /\ songs = InitSongs
    /\ releases = [a \in ArtistItems |-> << >>]
    /\ disk \in SUBSET ({"s1"} \cap menu)
    /\ mgr = [pc |-> "check", next |-> << >>]
    /\ lock = [holder |-> "none", waiting |-> {}]
    /\ running = TRUE
    /\ execQ = << >>
    /\ exp = EmptyBag
    /\ task = << >>
    /\ leaf = << >>
    /\ orphans = EmptyBag
    /\ songQ = << >>
    /\ emitted = << >>
    /\ ui = << >>

\* the pure helpers have not been called
NoCalls ==
    /\ sanIn = << >>
    /\ sanOut = << >>
    /\ dupIn = [title |-> << >>, artist |-> << >>, dir |-> {}, fmt |-> << >>, chk |-> FALSE]
    /\ dupOut = "none"

Init ==
    /\ ProgramInit
    /\ NoCalls

(***************************************************************************)
(* add_to_queue                                                            *)
(***************************************************************************)
\* has_songs of add_to_queue
has_songs(item) ==
    IF Kind(item) = "artist"
    THEN releases[item] # << >> /\ \E i \in 1..Len(releases[item]) : releases[item][i].songs # << >>
    ELSE IF Kind(item) \in ReleaseKinds
    THEN songs[item] # << >>
    ELSE FALSE

\* status given to a new entry
InitialStatus(item) ==
    IF Kind(item) \in {"artist"} \cup ReleaseKinds /\ ~has_songs(item)
    THEN "PENDING"
    ELSE "QUEUED"

\* a mutant of InitialTotal: counts every song of a release, selected or not
InitialTotalAll(item) ==
    IF Kind(item) = "artist"
    THEN IF releases[item] # << >> THEN SumLens(releases[item]) ELSE 1
    ELSE IF Kind(item) \in ReleaseKinds
    THEN IF songs[item] # << >> THEN Len(songs[item]) ELSE 1
    ELSE 1

\* total_songs given to a new entry
InitialTotal(item) ==
    IF Kind(item) = "artist"
    THEN IF releases[item] # << >> THEN SumLens(releases[item]) ELSE 1
    ELSE IF Kind(item) \in ReleaseKinds
    THEN IF songs[item] # << >> THEN Len(selected_songs(songs[item])) ELSE 1
    ELSE 1

\* the values int(time.time()) can have at the next call of add_to_queue:
\* the first call fixes the origin of time
Now == IF enq = 0 THEN {0} ELSE clock..MaxClock

\* add_to_queue(item) called when int(time.time()) = now
add_to_queue(item, now) ==
    LET id == << item, now >> IN
    /\ item \in menu
    /\ enq + Weight(item) <= MaxQueue
    /\ enq' = enq + Weight(item)
    /\ clock' = now
    /\ download_queue' = With(download_queue, id, DownloadItem(InitialStatus(item), InitialTotal(item)))
    /\ order' = IF id \in DOMAIN download_queue THEN order ELSE Append(order, id)
    /\ emitted' = << StatusEv(id, InitialStatus(item), << >>) >>
    /\ UNCHANGED << active_downloads, settingVars, network_connected, itemVars,
                    disk, mgr, execQ, exp, task, leaf, orphans, songQ,
                    sanVars, lockVars >>
    /\ ui' = Deliver(ui, emitted', download_queue')

(***************************************************************************)
(* cancel_download                                                         *)
(***************************************************************************)
\* a mutant of CancelEffect: an entry that is not active is marked
\* CANCELLED like an active one instead of being removed
CancelMarksOnly(q, act, id) ==
    IF id \notin DOMAIN q THEN [q |-> q, ev |-> << >>]
    ELSE [q |-> [q EXCEPT ![id].status = "CANCELLED"], ev |-> << >>]

\* the body of cancel_download: new queue and emitted signals
CancelEffect(q, act, id) ==
    IF id \notin DOMAIN q THEN [q |-> q, ev |-> << >>]
    ELSE IF id \in act
    THEN [q |-> [q EXCEPT ![id].status = "CANCELLED"], ev |-> << >>]
    ELSE [q |-> Without(q, id), ev |-> << StatusEv(id, "CANCELLED", << >>) >>]

cancel_download(id) ==
    LET r == CancelEffect(download_queue, active_downloads, id) IN
    /\ download_queue' = r.q
    /\ order' = SelectSeq(order, LAMBDA x : x \in DOMAIN r.q)
    /\ emitted' = r.ev
    /\ UNCHANGED << active_downloads, settingVars, network_connected, clock, enq, itemVars,
                    disk, mgr, execQ, exp, task, leaf, orphans, songQ,
                    sanVars, lockVars >>
    /\ ui' = Deliver(ui, emitted', download_queue')

(***************************************************************************)
(* MainWindow.clear_completed_downloads                                    *)
(***************************************************************************)
\* the widgets whose status label reads COMPLETED, FAILED or CANCELLED
completed_widgets == { id \in DOMAIN ui : ui[id] \in { "COMPLETED", "FAILED", "CANCELLED" } }

\* the handler pops every such id from the queue, whether or not it is in
\* active_downloads, and removes its widget
clear_completed_downloads ==
    /\ completed_widgets # {}
    /\ download_queue' = [id \in DOMAIN download_queue \ completed_widgets |-> download_queue[id]]
    /\ order' = SelectSeq(order, LAMBDA x : x \notin completed_widgets)
    /\ ui' = [id \in DOMAIN ui \ completed_widgets |-> ui[id]]
    /\ emitted' = << >>
    /\ UNCHANGED << active_downloads, settingVars, network_connected, clock, enq, itemVars,
                    disk, mgr, execQ, exp, task, leaf, orphans, songQ,
                    sanVars, lockVars >>

(***************************************************************************)
(* MainWindow.cancel_all_downloads, DownloadManager.shutdown               *)
(***************************************************************************)
\* threading.Lock is not reentrant: a thread that calls acquire while it
\* holds the lock waits for itself
SelfBlocked(t) == [holder |-> t, waiting |-> { t }]

\* the "Cancel All" button: the main thread takes the manager's lock, lists
\* the active ids and the QUEUED ids that are not active, and calls
\* cancel_download for the first of them inside the with block; with no id
\* to cancel the block is left and the status bar is updated
cancel_all_downloads ==
    LET active_ids == active_downloads
        queued_ids == { id \in DOMAIN download_queue :
                           download_queue[id].status = "QUEUED" /\ id \notin active_ids }
    IN
    /\ lock.holder = "none"
    /\ lock' = IF active_ids \cup queued_ids # {} THEN SelfBlocked("main") ELSE lock
    /\ emitted' = << >>
    /\ UNCHANGED << download_queue, order, active_downloads, settingVars, network_connected,
                    clock, enq, itemVars, disk, mgr, execQ, exp, task, leaf, orphans, songQ,
                    sanVars, running >>
    /\ ui' = Deliver(ui, emitted', download_queue')

\* shutdown, called by closeEvent on the main thread: the flag is cleared,
\* then cancel_download is called for the first active id inside the with
\* block; with no active id the executors are shut down without waiting
shutdown ==
    /\ lock.holder = "none"
    /\ running' = FALSE
    /\ lock' = IF active_downloads # {} THEN SelfBlocked("main") ELSE lock
    /\ emitted' = << >>
    /\ UNCHANGED << download_queue, order, active_downloads, settingVars, network_connected,
                    clock, enq, itemVars, disk, mgr, execQ, exp, task, leaf, orphans, songQ,
                    sanVars >>
    /\ ui' = Deliver(ui, emitted', download_queue')

(***************************************************************************)
(* SettingsDialog.save_settings                                            *)
(***************************************************************************)
\* the dialog is accepted with new_threads in the spin box: the Settings
\* object, which the manager shares, gets the new count; the two executors
\* made in DownloadManager.__init__ are not touched
save_settings(new_threads) ==
    /\ threads' = new_threads
    /\ emitted' = << >>
    /\ UNCHANGED << download_queue, order, active_downloads, workers, menu, network_connected,
                    clock, enq, itemVars, disk, mgr, execQ, exp, task, leaf, orphans, songQ,
                    sanVars, lockVars >>
    /\ ui' = Deliver(ui, emitted', download_queue')

(***************************************************************************)
(* _network_monitor_loop                                                   *)
(***************************************************************************)
network_monitor ==
    /\ network_connected' = ~network_connected
    /\ emitted' = << NetEv(~network_connected) >>
    /\ UNCHANGED << download_queue, order, active_downloads, settingVars, clock, enq, itemVars,
                    disk, mgr, execQ, exp, task, leaf, orphans, songQ,
                    sanVars, lockVars >>
    /\ ui' = Deliver(ui, emitted', download_queue')

(***************************************************************************)
(* _download_manager_loop                                                  *)
(***************************************************************************)
\* a mutant of available_slots: one slot too many
available_slots_off_by_one(thr, active_count) == thr - active_count + 1

\* available_slots = self.settings.threads - active_count
available_slots(thr, active_count) == thr - active_count

RECURSIVE Scan(_, _, _, _, _)
\* the for loop over download_queue.items(): admits QUEUED entries while
\* slots remain and submits a metadata fetch for every PENDING entry
Scan(i, slots, nxt, act, q) ==
    IF i > Len(order) THEN [next |-> nxt, active |-> act, execQ |-> q]
    ELSE LET id == order[i]
             item == download_queue[id]
         IN IF item.status = "QUEUED" /\ id \notin act /\ Len(nxt) < slots
            THEN Scan(i + 1, slots, Append(nxt, id), act \cup {id}, q)
            ELSE IF item.status = "PENDING" /\ id \notin act
            THEN Scan(i + 1, slots, nxt, act, Append(q, << "meta", id >>))
            ELSE Scan(i + 1, slots, nxt, act, q)

\* top of the loop while the network is reported down: sleep and retry
manager_wait ==
    /\ mgr.pc = "check"
    /\ ~network_connected
    /\ emitted' = << >>
    /\ UNCHANGED << download_queue, order, active_downloads, settingVars, network_connected,
                    clock, enq, itemVars, disk, mgr, execQ, exp, task, leaf, orphans, songQ,
                    sanVars, lockVars >>
    /\ ui' = Deliver(ui, emitted', download_queue')

\* top of the loop with the network up: go on to the locked scan
\* a mutant of manager_check: the iteration goes on whatever the flag says
manager_check_unguarded ==
    /\ mgr.pc = "check"
    /\ mgr' = [mgr EXCEPT !.pc = "scan"]
    /\ emitted' = << >>
    /\ UNCHANGED << download_queue, order, active_downloads, settingVars, network_connected,
                    clock, enq, itemVars, disk, execQ, exp, task, leaf, orphans, songQ,
                    sanVars, lockVars >>
    /\ ui' = Deliver(ui, emitted', download_queue')

\* `if not self.network_connected` found the flag up: the iteration goes on
manager_check ==
    /\ mgr.pc = "check"
    /\ network_connected
    /\ mgr' = [mgr EXCEPT !.pc = "scan"]
    /\ emitted' = << >>
    /\ UNCHANGED << download_queue, order, active_downloads, settingVars, network_connected,
                    clock, enq, itemVars, disk, execQ, exp, task, leaf, orphans, songQ,
                    sanVars, lockVars >>
    /\ ui' = Deliver(ui, emitted', download_queue')

\* the locked scan of the queue
manager_scan ==
    LET slots == available_slots(threads, Cardinality(active_downloads))
        r == IF slots > 0
             THEN Scan(1, slots, << >>, active_downloads, execQ)
             ELSE [next |-> << >>, active |-> active_downloads, execQ |-> execQ]
    IN
    /\ mgr.pc = "scan"
    /\ slots > 0 =>
         \A id \in DOMAIN download_queue :
            download_queue[id].status = "PENDING" /\ id \notin active_downloads
               => InFlight(id) < MaxExp
    /\ active_downloads' = r.active
    /\ execQ' = r.execQ
    /\ mgr' = [pc |-> IF r.next = << >> THEN "check" ELSE "start", next |-> r.next]
    /\ emitted' = << >>
    /\ UNCHANGED << download_queue, order, settingVars, network_connected, clock, enq, itemVars,
                    disk, exp, task, leaf, orphans, songQ,
                    sanVars, lockVars >>
    /\ ui' = Deliver(ui, emitted', download_queue')

\* _start_download for the next id of next_downloads.  The entry is read
\* with self.download_queue[download_id] outside the lock: when it has been
\* removed since the scan, the KeyError ends the manager thread.
start_download ==
    /\ mgr.pc = "start"
    /\ LET id == Head(mgr.next) IN
       IF id \in DOMAIN download_queue
       THEN /\ download_queue' = [download_queue EXCEPT ![id].status = "DOWNLOADING"]
            /\ execQ' = Append(execQ, << "dl", id >>)
            /\ mgr' = [pc |-> IF Tail(mgr.next) = << >> THEN "check" ELSE "start",
                       next |-> Tail(mgr.next)]
            /\ emitted' = << StatusEv(id, "DOWNLOADING", << >>) >>
       ELSE /\ mgr' = [pc |-> "dead", next |-> << >>]
            /\ emitted' = << >>
            /\ UNCHANGED << download_queue, execQ >>
    /\ UNCHANGED << order, active_downloads, settingVars, network_connected, clock, enq, itemVars,
                    disk, exp, task, leaf, orphans, songQ,
                    sanVars, lockVars >>
    /\ ui' = Deliver(ui, emitted', download_queue')


(***************************************************************************)
(* _start_metadata_fetch / _fetch_metadata_thread                          *)
(***************************************************************************)
RECURSIVE SumSongs(_)
\* total_songs as the resolver loops count it: the songs of every release
SumSongs(rl) ==
    IF rl = << >> THEN 0 ELSE Len(Head(rl).songs) + SumSongs(Tail(rl))

\* the releases of an artist after fetch_artist_details and, for each
\* release, fetch_release_details: every combination of resolver outcomes
ResolvedArtist(a) ==
    UNION { { rl \in [1..Len(base) -> UNION { { RelRec(base[i].r, sl) : sl \in fetch_release_details(base[i].r) }
                                              : i \in 1..Len(base) }] :
                 \A i \in 1..Len(base) : rl[i].r = base[i].r }
            : base \in fetch_artist_details(a) }

\* every running artist download of item a keeps iterating the Release
\* objects it started with once item.releases is replaced by a new list
Detach(t, a) ==
    [id \in DOMAIN t |-> IF ItemOf(id) = a THEN [t[id] EXCEPT !.att = FALSE] ELSE t[id]]

\* a worker of self.executor takes a metadata task from the work queue
metadata_start ==
    /\ execQ # << >>
    /\ Head(execQ)[1] = "meta"
    /\ BusyWorkers < workers
    /\ exp' = exp (+) SetToBag({Head(execQ)[2]})
    /\ execQ' = Tail(execQ)
    /\ emitted' = << >>
    /\ UNCHANGED << download_queue, order, active_downloads, settingVars, network_connected,
                    clock, enq, itemVars, disk, mgr, task, leaf, orphans, songQ,
                    sanVars, lockVars >>
    /\ ui' = Deliver(ui, emitted', download_queue')

\* the `with self.lock` block that stores the resolver's result
MetadataStore(q, id, total) ==
    IF id \in DOMAIN q
    THEN [q EXCEPT ![id].total_songs = total, ![id].status = "QUEUED"]
    ELSE q

\* _fetch_metadata_thread for a release entry
metadata_release(id) ==
    /\ BagIn(id, exp)
    /\ KindOf(id) \in ReleaseKinds
    /\ \E sl \in fetch_release_details(ItemOf(id)) :
         /\ songs' = [songs EXCEPT ![ItemOf(id)] = sl]
         /\ download_queue' = MetadataStore(download_queue, id, Len(sl))
    /\ exp' = exp (-) SetToBag({id})
    /\ emitted' = << MetaEv(id) >>
    /\ UNCHANGED << order, active_downloads, settingVars, network_connected, clock, enq, releases,
                    disk, mgr, execQ, task, leaf, orphans, songQ,
                    sanVars, lockVars >>
    /\ ui' = Deliver(ui, emitted', download_queue')

\* _fetch_metadata_thread for an artist entry
metadata_artist(id) ==
    /\ BagIn(id, exp)
    /\ KindOf(id) = "artist"
    /\ \E rl \in ResolvedArtist(ItemOf(id)) :
         /\ releases' = [releases EXCEPT ![ItemOf(id)] = rl]
         /\ download_queue' = MetadataStore(download_queue, id, SumSongs(rl))
    /\ task' = Detach(task, ItemOf(id))
    /\ exp' = exp (-) SetToBag({id})
    /\ emitted' = << MetaEv(id) >>
    /\ UNCHANGED << order, active_downloads, settingVars, network_connected, clock, enq, songs,
                    disk, mgr, execQ, leaf, orphans, songQ,
                    sanVars, lockVars >>
    /\ ui' = Deliver(ui, emitted', download_queue')

(***************************************************************************)
(* _download_song: the leaf                                                *)
(***************************************************************************)
Out(op, pc, res, q, d, ev) == [op |-> op, pc |-> pc, res |-> res, q |-> q, d |-> d, ev |-> ev]

\* a mutant of FileAlreadyThere: the disk is looked at only when
\* check_duplicates is on
FileAlreadyThereIfChecking(d, s, chk, fuzzy) == chk /\ (fuzzy \/ s \in d)

\* duplicate_found or os.path.exists(output_path); chk is the value of
\* settings.check_duplicates when it is read (the setting can be changed
\* at any time) and fuzzy the outcome of _check_file_exists on the
\* directory
FileAlreadyThere(d, s, chk, fuzzy) == (chk /\ fuzzy) \/ s \in d

\* the `with self.lock` block of the skip-if-exists path
LeafSkipped(q, id) ==
    IF id \notin DOMAIN q THEN [q |-> q, ev |-> << >>]
    ELSE LET c == q[id].completed_songs + 1 IN
         IF KindOf(id) = "song"
         THEN [q |-> [q EXCEPT ![id].completed_songs = c, ![id].progress = 100,
                                ![id].status = "COMPLETED"],
               ev |-> << StatusEv(id, "COMPLETED", << >>), ProgressEv(id, 100, "Already exists") >>]
         ELSE LET p == Percent(c, q[id].total_songs) IN
              [q |-> [q EXCEPT ![id].completed_songs = c, ![id].progress = p],
               ev |-> << ProgressEv(id, p, "Already exists") >>]

\* the `with self.lock` block "Mark as completed" at the end of the leaf
LeafCompleted(q, id) ==
    IF id \notin DOMAIN q THEN [q |-> q, ev |-> << >>]
    ELSE LET c == q[id].completed_songs + 1 IN
         IF KindOf(id) = "song"
         THEN [q |-> [q EXCEPT ![id].completed_songs = c, ![id].progress = 100,
                                ![id].status = "COMPLETED"],
               ev |-> << StatusEv(id, "COMPLETED", << >>), ProgressEv(id, 100, "Completed") >>]
         ELSE LET p == Percent(c, q[id].total_songs) IN
              [q |-> [q EXCEPT ![id].completed_songs = c, ![id].progress = p],
               ev |-> << ProgressEv(id, p, "Completed") >>]

\* status == CANCELLED as the checkpoints test it
IsCancelled(q, id) == id \in DOMAIN q /\ q[id].status = "CANCELLED"

\* from the start of _download_song to the skip-if-exists decision
leaf_begin(q, d, id, s, chk, fuzzy) ==
    IF Url(s) # "ok"
    THEN { Out("leaf_raise", "done", "exc", q, d, << >>) }
    ELSE IF FileAlreadyThere(d, s, chk, fuzzy)
    THEN LET r == LeafSkipped(q, id) IN { Out("leaf_skip", "done", "path", r.q, d, r.ev) }
    ELSE { Out("leaf_begin", "cancelcheck", "", q, d, << >>),
           Out("leaf_raise", "done", "exc", q, d, << >>) }

\* the cancellation checkpoint, then subprocess.Popen
leaf_cancelcheck(q, d, id, s) ==
    IF IsCancelled(q, id)
    THEN { Out("leaf_cancelled", "done", "none", q, d, << StatusEv(id, "CANCELLED", << >>) >>) }
    ELSE { Out("popen", "fetching", "", q, d, << >>) }

\* one "[download] NN%" line: progress write, then the cancellation check
leaf_line(q, d, id, s, p) ==
    LET q1 == IF id \in DOMAIN q THEN [q EXCEPT ![id].progress = p] ELSE q
        e1 == IF id \in DOMAIN q THEN << ProgressEv(id, p, "Downloading") >> ELSE << >>
    IN IF IsCancelled(q1, id)
       THEN Out("leaf_cancelled", "done", "none", q1, d,
                e1 \o << StatusEv(id, "CANCELLED", << >>) >>)
       ELSE Out("leaf_line", "fetching", "", q1, d, e1)

\* the `with self.lock` block that sets PROCESSING
LeafProcessing(q, id) ==
    IF id \notin DOMAIN q THEN [q |-> q, ev |-> << >>]
    ELSE [q |-> [q EXCEPT ![id].status = "PROCESSING"],
          ev |-> << StatusEv(id, "PROCESSING", << >>) >>]

\* the loop over process.stdout and the exit of the yt-dlp process
leaf_fetching(q, d, id, s) ==
    { leaf_line(q, d, id, s, p) : p \in ToolPercents }
    \cup (IF IsCancelled(q, id)
          THEN { Out("leaf_cancelled", "done", "none", q, d,
                     << StatusEv(id, "CANCELLED", << >>) >>) }
          ELSE {})
    \cup { LET r == LeafProcessing(q, id) IN
             Out("leaf_exit", "processing", "", r.q, d \cup {s}, r.ev),
           LET r == LeafCompleted(q, id) IN
             Out("leaf_done", "done", "path", r.q, d, r.ev),
           Out("leaf_raise", "done", "exc", q, d, << >>) }

\* tagging (non-fatal), then "Mark as completed"
leaf_processing(q, d, id, s) ==
    LET r == LeafCompleted(q, id) IN { Out("leaf_done", "done", "path", r.q, d, r.ev) }

\* one step of a started leaf
leaf_step(pc, q, d, id, s) ==
    CASE pc = "cancelcheck" -> leaf_cancelcheck(q, d, id, s)
      [] pc = "fetching" -> leaf_fetching(q, d, id, s)
      [] pc = "processing" -> leaf_processing(q, d, id, s)
      [] OTHER -> {}

(***************************************************************************)
(* _download_thread: dispatch, exception handler, finally                  *)
(***************************************************************************)
\* locals of a running _download_thread
NewTask(pc) ==
    [pc |-> pc, todo |-> << >>, nsel |-> 0, rels |-> << >>, ri |-> 0, att |-> FALSE,
     asucc |-> 0, nfail |-> 0, relOk |-> << >>]

\* the except block of _download_thread
ThreadFailed(q, id) ==
    IF id \notin DOMAIN q THEN [q |-> q, ev |-> << >>]
    ELSE [q |-> [q EXCEPT ![id].status = "FAILED", ![id].err = TRUE],
          ev |-> << StatusEv(id, "FAILED", << >>) >>]

\* a Song entry runs _download_song inside its _download_thread: an
\* exception of the leaf reaches the except block
SongOutcome(o, id) ==
    IF o.res = "exc"
    THEN LET r == ThreadFailed(o.q, id) IN
         [pc |-> "finally", q |-> r.q, ev |-> o.ev \o r.ev, op |-> o.op]
    ELSE [pc |-> IF o.pc = "done" THEN "finally" ELSE o.pc, q |-> o.q, ev |-> o.ev, op |-> o.op]

\* a worker of self.executor takes the download task of a Song entry
song_begin(id) ==
    /\ execQ # << >>
    /\ Head(execQ) = << "dl", id >>
    /\ KindOf(id) = "song"
    /\ BusyWorkers < workers
    /\ \E chk \in BOOLEAN, fuzzy \in BOOLEAN :
       \E o \in leaf_begin(download_queue, disk, id, ItemOf(id), chk, fuzzy) :
         LET r == SongOutcome(o, id) IN
         /\ download_queue' = r.q
         /\ disk' = o.d
         /\ task' = With(task, id, NewTask(r.pc))
         /\ emitted' = r.ev
    /\ execQ' = Tail(execQ)
    /\ UNCHANGED << order, active_downloads, settingVars, network_connected, clock, enq, itemVars,
                    mgr, exp, leaf, orphans, songQ,
                    sanVars, lockVars >>
    /\ ui' = Deliver(ui, emitted', download_queue')

\* a later step of a Song entry's _download_song
song_step(id) ==
    /\ id \in DOMAIN task
    /\ KindOf(id) = "song"
    /\ \E o \in leaf_step(task[id].pc, download_queue, disk, id, ItemOf(id)) :
         LET r == SongOutcome(o, id) IN
         /\ download_queue' = r.q
         /\ disk' = o.d
         /\ task' = [task EXCEPT ![id].pc = r.pc]
         /\ emitted' = r.ev
    /\ UNCHANGED << order, active_downloads, settingVars, network_connected, clock, enq, itemVars,
                    mgr, execQ, exp, leaf, orphans, songQ,
                    sanVars, lockVars >>
    /\ ui' = Deliver(ui, emitted', download_queue')

\* the finally block of _download_thread
thread_finally(id) ==
    /\ id \in DOMAIN task
    /\ task[id].pc = "finally"
    /\ active_downloads' = active_downloads \ {id}
    /\ task' = Without(task, id)
    /\ emitted' = << >>
    /\ UNCHANGED << download_queue, order, settingVars, network_connected, clock, enq, itemVars,
                    disk, mgr, execQ, exp, leaf, orphans, songQ,
                    sanVars, lockVars >>
    /\ ui' = Deliver(ui, emitted', download_queue')


(***************************************************************************)
(* _download_release                                                       *)
(***************************************************************************)
Names(sl) == [i \in 1..Len(sl) |-> sl[i].s]

\* From the start of _download_release to the choice of selected_songs,
\* for a release whose songs list is sl.  exc: an exception leaves the
\* function (directory cannot be created, or no songs after resolving).
release_begin(q, id, r, sl) ==
    { [exc |-> TRUE, songs |-> sl, q |-> q] }
    \cup
    (IF sl = << >>
     THEN { [exc |-> ans = << >>, songs |-> ans,
             q |-> IF id \in DOMAIN q THEN [q EXCEPT ![id].total_songs = Len(ans)] ELSE q]
            : ans \in fetch_release_details(r) }
     ELSE { [exc |-> FALSE, songs |-> sl, q |-> q] })

\* the futures of id that the running release download waits for
LeavesOf(id) == { k \in DOMAIN leaf : k[1] = id }

\* _download_release returns while leaves it submitted are unfinished:
\* they go on running in song_executor with nobody waiting for them
OrphansOf(id) ==
    LET live == { k \in LeavesOf(id) : leaf[k].pc # "done" } IN
    [rec \in { [id |-> id, s |-> k[2], pc |-> leaf[k].pc] : k \in live } |-> 1]

DisownQ(id) ==
    [i \in 1..Len(songQ) |->
        IF songQ[i].id = id THEN [songQ[i] EXCEPT !.own = FALSE] ELSE songQ[i]]

\* the locals of the thread after _download_release has returned or raised;
\* how: what became of the release ("ok": it ran to its end and at least
\* one leaf returned a path, "failed": it raised or no leaf returned a
\* path, "cancelled": it or one of its leaves stopped at a cancellation
\* checkpoint)
AfterRelease(t, id, raised, how) ==
    IF KindOf(id) = "artist"
    THEN [t EXCEPT !.pc = "a_loop", !.ri = t.ri + 1, !.todo = << >>,
                   !.asucc = IF raised THEN t.asucc ELSE t.asucc + 1,
                   !.nfail = IF raised THEN t.nfail + 1 ELSE t.nfail,
                   !.relOk = Append(t.relOk, how)]
    ELSE [t EXCEPT !.pc = "finally", !.todo = << >>]

\* a worker of self.executor takes the download task of a release entry
release_begin_top(id) ==
    /\ execQ # << >>
    /\ Head(execQ) = << "dl", id >>
    /\ KindOf(id) \in ReleaseKinds
    /\ BusyWorkers < workers
    /\ \E o \in release_begin(download_queue, id, ItemOf(id), songs[ItemOf(id)]) :
         /\ songs' = [songs EXCEPT ![ItemOf(id)] = o.songs]
         /\ IF o.exc
            THEN LET f == ThreadFailed(o.q, id) IN
                 /\ download_queue' = f.q
                 /\ task' = With(task, id, NewTask("finally"))
                 /\ emitted' = f.ev
            ELSE /\ download_queue' = o.q
                 /\ task' = With(task, id,
                        [NewTask("submit") EXCEPT !.todo = Names(selected_songs(o.songs)),
                                                  !.nsel = Len(selected_songs(o.songs))])
                 /\ emitted' = << >>
    /\ execQ' = Tail(execQ)
    /\ UNCHANGED << order, active_downloads, settingVars, network_connected, clock, enq, releases,
                    disk, mgr, exp, leaf, orphans, songQ,
                    sanVars, lockVars >>
    /\ ui' = Deliver(ui, emitted', download_queue')

\* one iteration of `for song in selected_songs`
release_submit(id) ==
    /\ id \in DOMAIN task
    /\ task[id].pc = "submit"
    /\ LET t == task[id]
           s == Head(t.todo)
           rest == Tail(t.todo)
           t2 == [t EXCEPT !.todo = rest, !.pc = IF rest = << >> THEN "wait" ELSE "submit"]
       IN
       IF IsCancelled(download_queue, id)
       THEN /\ task' = [task EXCEPT ![id] = AfterRelease(t, id, FALSE, "cancelled")]
            /\ orphans' = orphans (+) OrphansOf(id)
            /\ leaf' = [k \in DOMAIN leaf \ LeavesOf(id) |-> leaf[k]]
            /\ songQ' = DisownQ(id)
            /\ emitted' = << StatusEv(id, "CANCELLED", << >>) >>
       ELSE IF Url(s) = "placeholder"
       THEN /\ task' = [task EXCEPT ![id] = t2]
            /\ emitted' = << >>
            /\ UNCHANGED << leaf, orphans, songQ >>
       ELSE /\ task' = [task EXCEPT ![id] = t2]
            /\ leaf' = With(leaf, << id, s >>, [pc |-> "queued", res |-> ""])
            /\ songQ' = Append(songQ, [id |-> id, s |-> s, own |-> TRUE])
            /\ emitted' = IF id \in DOMAIN download_queue
                          THEN << ProgressEv(id, Percent(download_queue[id].completed_songs,
                                                         download_queue[id].total_songs),
                                        "Downloading song") >>
                          ELSE << >>
            /\ UNCHANGED orphans
    /\ UNCHANGED << download_queue, order, active_downloads, settingVars, network_connected,
                    clock, enq, itemVars, disk, mgr, execQ, exp, sanVars, lockVars >>
    /\ ui' = Deliver(ui, emitted', download_queue')

\* a mutant of ReleaseFinal: any failed leaf makes the release FAILED
ReleaseFinalStrict(q, id, k, n, nerr) ==
    IF id \notin DOMAIN q THEN [q |-> q, ev |-> << >>]
    ELSE IF k = 0 \/ nerr > 0
    THEN [q |-> [q EXCEPT ![id].status = "FAILED", ![id].err = (nerr > 0)],
          ev |-> << StatusEv(id, "FAILED", << >>) >>]
    ELSE [q |-> [q EXCEPT ![id].status = "COMPLETED"],
          ev |-> << StatusEv(id, "COMPLETED", << k, n >>) >>]

\* "Update status based on results" of _download_release: k leaves
\* returned a path, n songs were selected, nerr leaves raised
ReleaseFinal(q, id, k, n, nerr) ==
    IF id \notin DOMAIN q THEN [q |-> q, ev |-> << >>]
    ELSE IF k = 0
    THEN [q |-> [q EXCEPT ![id].status = "FAILED", ![id].err = (nerr > 0)],
          ev |-> << StatusEv(id, "FAILED", << >>) >>]
    ELSE [q |-> [q EXCEPT ![id].status = "COMPLETED"],
          ev |-> << StatusEv(id, "COMPLETED", << k, n >>) >>]

\* as_completed(futures) has yielded every future
AllDone(id) == \A k \in LeavesOf(id) : leaf[k].pc = "done"

\* success_count after the as_completed loop
SuccessCount(id) == Cardinality({ k \in LeavesOf(id) : leaf[k].res = "path" })

\* len(error_messages) after the as_completed loop
ErrorCount(id) == Cardinality({ k \in LeavesOf(id) : leaf[k].res = "exc" })

\* what became of the release whose leaves have all finished
Outcome(id) ==
    IF \E k \in LeavesOf(id) : leaf[k].res = "none" THEN "cancelled"
    ELSE IF \E k \in LeavesOf(id) : leaf[k].res = "path" THEN "ok"
    ELSE "failed"

\* the as_completed loop and the final status of _download_release
release_wait(id) ==
    /\ id \in DOMAIN task
    /\ task[id].pc = "wait"
    /\ AllDone(id)
    /\ LET f == ReleaseFinal(download_queue, id, SuccessCount(id), task[id].nsel, ErrorCount(id)) IN
       /\ download_queue' = f.q
       /\ emitted' = f.ev
    /\ task' = [task EXCEPT ![id] = AfterRelease(task[id], id, FALSE, Outcome(id))]
    /\ orphans' = orphans (+) OrphansOf(id)
    /\ leaf' = [k \in DOMAIN leaf \ LeavesOf(id) |-> leaf[k]]
    /\ songQ' = DisownQ(id)
    /\ UNCHANGED << order, active_downloads, settingVars, network_connected, clock, enq, itemVars,
                    disk, mgr, execQ, exp, sanVars, lockVars >>
    /\ ui' = Deliver(ui, emitted', download_queue')

(***************************************************************************)
(* leaves running in self.song_executor                                    *)
(***************************************************************************)
\* a worker of song_executor takes the next leaf from the work queue
leaf_start ==
    /\ songQ # << >>
    /\ BusySongWorkers < workers
    /\ LET w == Head(songQ) IN
       \E chk \in BOOLEAN, fuzzy \in BOOLEAN :
       \E o \in leaf_begin(download_queue, disk, w.id, w.s, chk, fuzzy) :
         /\ download_queue' = o.q
         /\ disk' = o.d
         /\ emitted' = o.ev
         /\ IF w.own
            THEN /\ leaf' = [leaf EXCEPT ![<< w.id, w.s >>] = [pc |-> o.pc, res |-> o.res]]
                 /\ UNCHANGED orphans
            ELSE /\ orphans' = (orphans (-) SetToBag({[id |-> w.id, s |-> w.s, pc |-> "queued"]}))
                                (+) (IF o.pc = "done" THEN EmptyBag
                                     ELSE SetToBag({[id |-> w.id, s |-> w.s, pc |-> o.pc]}))
                 /\ UNCHANGED leaf
    /\ songQ' = Tail(songQ)
    /\ UNCHANGED << order, active_downloads, settingVars, network_connected, clock, enq, itemVars,
                    mgr, execQ, exp, task, sanVars, lockVars >>
    /\ ui' = Deliver(ui, emitted', download_queue')

\* a later step of a leaf the release download is waiting for
leaf_run(k) ==
    /\ k \in DOMAIN leaf
    /\ \E o \in leaf_step(leaf[k].pc, download_queue, disk, k[1], k[2]) :
         /\ download_queue' = o.q
         /\ disk' = o.d
         /\ leaf' = [leaf EXCEPT ![k] = [pc |-> o.pc, res |-> o.res]]
         /\ emitted' = o.ev
    /\ UNCHANGED << order, active_downloads, settingVars, network_connected, clock, enq, itemVars,
                    mgr, execQ, exp, task, orphans, songQ,
                    sanVars, lockVars >>
    /\ ui' = Deliver(ui, emitted', download_queue')

\* a later step of a leaf nobody waits for any more
orphan_run(rec) ==
    /\ BagIn(rec, orphans)
    /\ \E o \in leaf_step(rec.pc, download_queue, disk, rec.id, rec.s) :
         /\ download_queue' = o.q
         /\ disk' = o.d
         /\ orphans' = (orphans (-) SetToBag({rec}))
                        (+) (IF o.pc = "done" THEN EmptyBag
                             ELSE SetToBag({[rec EXCEPT !.pc = o.pc]}))
         /\ emitted' = o.ev
    /\ UNCHANGED << order, active_downloads, settingVars, network_connected, clock, enq, itemVars,
                    mgr, execQ, exp, task, leaf, songQ,
                    sanVars, lockVars >>
    /\ ui' = Deliver(ui, emitted', download_queue')

(***************************************************************************)
(* _download_artist                                                        *)
(***************************************************************************)
\* "Update status based on results" of _download_artist: k releases
\* counted as successful, n = len(artist.releases), nfail releases raised
ArtistFinal(q, id, k, n, nfail) ==
    IF id \notin DOMAIN q THEN [q |-> q, ev |-> << >>]
    ELSE IF k = 0
    THEN [q |-> [q EXCEPT ![id].status = "FAILED", ![id].err = (nfail > 0)],
          ev |-> << StatusEv(id, "FAILED", << >>) >>]
    ELSE [q |-> [q EXCEPT ![id].status = "COMPLETED"],
          ev |-> << StatusEv(id, "COMPLETED", << k, n >>) >>]

\* a worker of self.executor takes the download task of an artist entry:
\* from the start of _download_artist to the `for release` loop
artist_begin(id) ==
    LET a == ItemOf(id) IN
    /\ execQ # << >>
    /\ Head(execQ) = << "dl", id >>
    /\ KindOf(id) = "artist"
    /\ BusyWorkers < workers
    /\ \/ \* os.makedirs raises
          LET f == ThreadFailed(download_queue, id) IN
          /\ download_queue' = f.q
          /\ task' = With(task, id, NewTask("finally"))
          /\ emitted' = f.ev
          /\ UNCHANGED releases
       \/ \* the releases are already known
          /\ releases[a] # << >>
          /\ task' = With(task, id, [NewTask("a_loop") EXCEPT !.rels = releases[a], !.ri = 1,
                                                              !.att = TRUE])
          /\ emitted' = << >>
          /\ UNCHANGED << download_queue, releases >>
       \/ \* the releases are resolved here; the entry is set back to QUEUED
          /\ releases[a] = << >>
          /\ \E rl \in ResolvedArtist(a) :
               LET q1 == MetadataStore(download_queue, id, SumSongs(rl))
                   e1 == IF id \in DOMAIN download_queue THEN << ProgressEv(id, 0, "Fetching artist details") >> ELSE << >>
                   f == ThreadFailed(q1, id)
               IN
               /\ releases' = [releases EXCEPT ![a] = rl]
               /\ IF rl = << >>
                  THEN /\ download_queue' = f.q
                       /\ task' = With(Detach(task, a), id, NewTask("finally"))
                       /\ emitted' = e1 \o f.ev
                  ELSE /\ download_queue' = q1
                       /\ task' = With(Detach(task, a), id,
                              [NewTask("a_loop") EXCEPT !.rels = rl, !.ri = 1, !.att = TRUE])
                       /\ emitted' = e1
    /\ execQ' = Tail(execQ)
    /\ UNCHANGED << order, active_downloads, settingVars, network_connected, clock, enq, songs,
                    disk, mgr, exp, leaf, orphans, songQ,
                    sanVars, lockVars >>
    /\ ui' = Deliver(ui, emitted', download_queue')

\* top of `for release in artist.releases`, or the final status after it
artist_loop(id) ==
    /\ id \in DOMAIN task
    /\ task[id].pc = "a_loop"
    /\ LET t == task[id] IN
       IF t.ri > Len(t.rels)
       THEN LET f == ArtistFinal(download_queue, id, t.asucc, Len(releases[ItemOf(id)]), t.nfail) IN
            /\ download_queue' = f.q
            /\ task' = [task EXCEPT ![id].pc = "finally"]
            /\ emitted' = f.ev
       ELSE IF IsCancelled(download_queue, id)
       THEN /\ task' = [task EXCEPT ![id].pc = "finally"]
            /\ emitted' = << StatusEv(id, "CANCELLED", << >>) >>
            /\ UNCHANGED download_queue
       ELSE /\ task' = [task EXCEPT ![id].pc = "r_begin"]
            /\ emitted' = IF id \in DOMAIN download_queue
                          THEN << ProgressEv(id, Percent(download_queue[id].completed_songs,
                                                         download_queue[id].total_songs),
                                        "Downloading release") >>
                          ELSE << >>
            /\ UNCHANGED download_queue
    /\ UNCHANGED << order, active_downloads, settingVars, network_connected, clock, enq, itemVars,
                    disk, mgr, execQ, exp, leaf, orphans, songQ,
                    sanVars, lockVars >>
    /\ ui' = Deliver(ui, emitted', download_queue')

\* the call of _download_release for the current release of the artist
artist_release_begin(id) ==
    /\ id \in DOMAIN task
    /\ task[id].pc = "r_begin"
    /\ LET t == task[id]
           a == ItemOf(id)
           rel == t.rels[t.ri]
       IN
       \E o \in release_begin(download_queue, id, rel.r, rel.songs) :
         LET t1 == [t EXCEPT !.rels[t.ri].songs = o.songs] IN
         /\ download_queue' = o.q
         /\ releases' = IF t.att THEN [releases EXCEPT ![a][t.ri].songs = o.songs] ELSE releases
         /\ IF o.exc
            THEN /\ task' = [task EXCEPT ![id] = AfterRelease(t1, id, TRUE, "failed")]
                 /\ emitted' = << >>
            ELSE /\ task' = [task EXCEPT ![id] =
                        [t1 EXCEPT !.pc = "submit",
                                   !.todo = Names(selected_songs(o.songs)),
                                   !.nsel = Len(selected_songs(o.songs))]]
                 /\ emitted' = << >>
    /\ UNCHANGED << order, active_downloads, settingVars, network_connected, clock, enq, songs,
                    disk, mgr, execQ, exp, leaf, orphans, songQ,
                    sanVars, lockVars >>
    /\ ui' = Deliver(ui, emitted', download_queue')

(***************************************************************************)
(* The program.                                                            *)
(***************************************************************************)
Next ==
    \/ \E item \in Items, now \in Now : add_to_queue(item, now)
    \/ \E id \in Ids : cancel_download(id)
    \/ clear_completed_downloads
    \/ network_monitor
    \/ manager_wait
    \/ manager_check
    \/ manager_scan
    \/ start_download
    \/ metadata_start
    \/ \E id \in Ids : metadata_release(id)
    \/ \E id \in Ids : metadata_artist(id)
    \/ \E id \in Ids : song_begin(id)
    \/ \E id \in Ids : song_step(id)
    \/ \E id \in Ids : thread_finally(id)
    \/ \E id \in Ids : release_begin_top(id)
    \/ \E id \in Ids : release_submit(id)
    \/ \E id \in Ids : release_wait(id)
    \/ leaf_start
    \/ \E k \in DOMAIN leaf : leaf_run(k)
    \/ \E rec \in BagToSet(orphans) : orphan_run(rec)
    \/ \E id \in Ids : artist_begin(id)
    \/ \E id \in Ids : artist_loop(id)
    \/ \E id \in Ids : artist_release_begin(id)

Spec == Init /\ [][Next]_vars

(***************************************************************************)
(* sanitize_filename, on file names written as sequences of characters.    *)
(***************************************************************************)
\* longest file name handed to sanitize_filename
MaxLen == 3

\* characters the file names are drawn from
Alphabet == { "a", " ", ".", "/", "?", "_" }

SanInputs == UNION { [1..n -> Alphabet] : n \in 0..MaxLen }

\* invalid_chars = '<>:"/\\|?*'
invalid_chars == { "<", ">", ":", "\"", "/", "\\", "|", "?", "*" }

\* the value returned for an empty name
Unknown == << "U", "n", "k", "n", "o", "w", "n" >>

\* for char in invalid_chars: filename = filename.replace(char, '_')
ReplaceInvalid(f) == [i \in 1..Len(f) |-> IF f[i] \in invalid_chars THEN "_" ELSE f[i]]

RECURSIVE LStrip(_)
LStrip(f) == IF f # << >> /\ f[1] \in { ".", " " } THEN LStrip(Tail(f)) ELSE f

RECURSIVE RStrip(_)
RStrip(f) ==
    IF f # << >> /\ f[Len(f)] \in { ".", " " } THEN RStrip(SubSeq(f, 1, Len(f) - 1)) ELSE f

\* filename.strip('. ')
Strip(f) == RStrip(LStrip(f))

\* while '  ' in filename: filename = filename.replace('  ', ' ')
RECURSIVE CollapseSpaces(_)
CollapseSpaces(f) ==
    IF Len(f) < 2 THEN f
    ELSE IF f[1] = " " /\ f[2] = " " THEN CollapseSpaces(Tail(f))
    ELSE << f[1] >> \o CollapseSpaces(Tail(f))

sanitize_filename(filename) ==
    IF filename = << >> THEN Unknown
    ELSE LET f == CollapseSpaces(Strip(ReplaceInvalid(filename))) IN
         IF f = << >> THEN Unknown ELSE f

\* one call of sanitize_filename
sanitize ==
    /\ sanOut = << >>
    /\ sanOut' = sanitize_filename(sanIn)
    /\ UNCHANGED << download_queue, order, active_downloads, settingVars, network_connected,
                    clock, enq, itemVars, disk, mgr, execQ, exp, task, leaf, orphans, songQ,
                    emitted, ui, sanIn, dupIn, dupOut, lockVars >>

InitSan ==
    /\ ProgramInit
    /\ threads = 1
    /\ menu = { "s1" }
    /\ disk = { }
    /\ sanIn \in SanInputs
    /\ sanOut = << >>
    /\ dupIn = [title |-> << >>, artist |-> << >>, dir |-> {}, fmt |-> << >>, chk |-> FALSE]
    /\ dupOut = "none"

NextSan == sanitize

SpecSan == InitSan /\ [][NextSan]_vars

(***************************************************************************)
(* _check_file_exists, on strings written as sequences of characters.      *)
(***************************************************************************)
\* longest song title handed to _check_file_exists
MaxTitle == 3

\* longest file name, without its extension, in the directory
MaxStem == 3

\* characters the titles and file names are drawn from
DupAlphabet == { "f", "t", " ", "." }

\* str.lower() on the characters in use
Lower(c) == IF c = "F" THEN "f" ELSE IF c = "T" THEN "t" ELSE c

LowerAll(f) == [i \in 1..Len(f) |-> Lower(f[i])]

\* for char in ['(', ')', '[', ']', '{', '}', '-', '_', '.', ',', '\'', '"']
punctuation == { "(", ")", "[", "]", "{", "}", "-", "_", ".", ",", "'", "\"" }

\* ['official', 'video', 'audio', 'lyrics', 'ft', 'feat', 'remix', 'version']
stop_words ==
    << << "o", "f", "f", "i", "c", "i", "a", "l" >>,
       << "v", "i", "d", "e", "o" >>,
       << "a", "u", "d", "i", "o" >>,
       << "l", "y", "r", "i", "c", "s" >>,
       << "f", "t" >>,
       << "f", "e", "a", "t" >>,
       << "r", "e", "m", "i", "x" >>,
       << "v", "e", "r", "s", "i", "o", "n" >> >>

\* characters str.strip() and str.split() treat as whitespace
IsSpace(c) == c = " "

RECURSIVE LTrim(_)
LTrim(f) == IF f # << >> /\ IsSpace(f[1]) THEN LTrim(Tail(f)) ELSE f

RECURSIVE RTrim(_)
RTrim(f) == IF f # << >> /\ IsSpace(f[Len(f)]) THEN RTrim(SubSeq(f, 1, Len(f) - 1)) ELSE f

\* str.strip()
Trim(f) == RTrim(LTrim(f))

\* f.startswith(pat)
StartsWith(f, pat) == Len(pat) <= Len(f) /\ SubSeq(f, 1, Len(pat)) = pat

\* f.endswith(pat)
EndsWith(f, pat) == Len(pat) <= Len(f) /\ SubSeq(f, Len(f) - Len(pat) + 1, Len(f)) = pat

RECURSIVE Replace(_, _, _)
\* f.replace(pat, rep): the occurrences of pat, left to right and without
\* overlap, are replaced by rep
Replace(f, pat, rep) ==
    IF Len(f) < Len(pat) THEN f
    ELSE IF StartsWith(f, pat)
    THEN rep \o Replace(SubSeq(f, Len(pat) + 1, Len(f)), pat, rep)
    ELSE << f[1] >> \o Replace(Tail(f), pat, rep)

\* the loop that replaces every punctuation character by a space
ReplacePunctuation(f) == [i \in 1..Len(f) |-> IF f[i] \in punctuation THEN " " ELSE f[i]]

RECURSIVE RemoveWords(_, _)
\* the loop over the stop words: replace(" word ", ' ') and then
\* replace(" word.", ' '), for the i-th word onwards
RemoveWords(f, i) ==
    IF i > Len(stop_words) THEN f
    ELSE LET w == stop_words[i]
             f1 == Replace(f, << " " >> \o w \o << " " >>, << " " >>)
             f2 == Replace(f1, << " " >> \o w \o << "." >>, << " " >>)
         IN RemoveWords(f2, i + 1)

RECURSIVE Split(_)
\* str.split(): the maximal runs of non-whitespace characters
Split(f) ==
    LET g == LTrim(f) IN
    IF g = << >> THEN << >>
    ELSE LET n == CHOOSE k \in 1..Len(g) :
                    /\ \A j \in 1..k : ~IsSpace(g[j])
                    /\ k = Len(g) \/ IsSpace(g[k + 1])
         IN << SubSeq(g, 1, n) >> \o Split(SubSeq(g, n + 1, Len(g)))

\* [w for w in f.split() if len(w) > 1]
Words(f) == SelectSeq(Split(f), LAMBDA w : Len(w) > 1)

\* word in f (substring test)
Contains(f, w) == \E i \in 0..(Len(f) - Len(w)) : SubSeq(f, i + 1, i + Len(w)) = w

\* title_clean after the two clean-up loops
CleanTitle(title) == RemoveWords(ReplacePunctuation(Trim(LowerAll(title))), 1)

\* artist_clean: punctuation is replaced, the stop words are left in
CleanArtist(artist) == ReplacePunctuation(Trim(LowerAll(artist)))

\* file_clean of one file name whose extension matches
CleanFile(filename, ext) ==
    LET low == Trim(LowerAll(filename))
        cut == SubSeq(low, 1, Len(low) - Len(ext))
    IN RemoveWords(ReplacePunctuation(cut), 1)

\* the body of the loop over os.listdir(directory) for one file name
FileMatches(filename, fmt, title_words, artist_words) ==
    LET ext == << "." >> \o LowerAll(fmt) IN
    /\ EndsWith(LowerAll(filename), ext)
    /\ \A i \in 1..Len(title_words) : Contains(CleanFile(filename, ext), title_words[i])
    /\ \A i \in 1..Len(artist_words) : Contains(CleanFile(filename, ext), artist_words[i])

_check_file_exists(in) ==
    IF ~in.chk THEN FALSE
    ELSE IF in.title = << >> \/ in.artist = << >> THEN FALSE
    ELSE \E filename \in in.dir :
            FileMatches(filename, in.fmt, Words(CleanTitle(in.title)), Words(CleanArtist(in.artist)))

\* the titles and file names handed to _check_file_exists
TitleInputs == UNION { [1..n -> DupAlphabet] : n \in 0..MaxTitle }

ArtistInputs == { << "t", "t" >>, << "t", ".", "t" >> }

Extensions == { << "m", "p", "3" >>, << "w", "a", "v" >> }

FileNames ==
    { stem \o << "." >> \o ext : stem \in UNION { [1..n -> DupAlphabet] : n \in 0..MaxStem },
                                 ext \in Extensions }

\* one call of _check_file_exists
check_file_exists ==
    /\ dupOut = "none"
    /\ dupOut' = IF _check_file_exists(dupIn) THEN "true" ELSE "false"
    /\ UNCHANGED << download_queue, order, active_downloads, settingVars, network_connected,
                    clock, enq, itemVars, disk, mgr, execQ, exp, task, leaf, orphans, songQ,
                    emitted, ui, sanIn, sanOut, dupIn, lockVars >>

InitDup ==
    /\ ProgramInit
    /\ threads = 1
    /\ menu = { "s1" }
    /\ disk = { }
    /\ sanIn = << >>
    /\ sanOut = << >>
    /\ dupOut = "none"
    /\ \/ dupIn \in [title : TitleInputs, artist : ArtistInputs,
                    dir : { {} } \cup { { f } : f \in FileNames },
                    fmt : { << "m", "p", "3" >> }, chk : { TRUE }]
       \/ dupIn \in [title : { << >>, << "t", "t" >> }, artist : { << >>, << "t", "t" >> },
                     dir : { { << "t", "t", ".", "m", "p", "3" >> } },
                     fmt : { << "m", "p", "3" >> }, chk : BOOLEAN]

NextDup == check_file_exists

SpecDup == InitDup /\ [][NextDup]_vars

(***************************************************************************)
(* Properties of the download manager.                                     *)
(***************************************************************************)
\* the step is a call of add_to_queue or of cancel_download
UserStep ==
    \/ \E item \in Items, now \in Now : add_to_queue(item, now)
    \/ \E id \in Ids : cancel_download(id)

\* C1: in every reachable state the number of ids in active_downloads is at
\* most the configured thread count.
C1_ActiveWithinThreads == Cardinality(active_downloads) <= threads

\* every slot is taken while a QUEUED entry is waiting for one
C1_Witness ==
    /\ Cardinality(active_downloads) = threads
    /\ \E id \in DOMAIN download_queue :
         id \notin active_downloads /\ download_queue[id].status = "QUEUED"

\* C2: for every entry of the queue, 0 <= completed_songs <= total_songs in
\* every reachable state.
C2_CompletedWithinTotal ==
    \A id \in DOMAIN download_queue :
       /\ 0 <= download_queue[id].completed_songs
       /\ download_queue[id].completed_songs <= download_queue[id].total_songs

\* C3: once an entry is CANCELLED it stays in the queue with status
\* CANCELLED: no step of the dispatch loop, of a leaf or of a finaliser
\* changes it (only a new call of add_to_queue or cancel_download may).
C3_CancelledStays ==
    [][\A id \in DOMAIN download_queue :
          (download_queue[id].status = "CANCELLED" /\ ~UserStep)
          => /\ id \in DOMAIN download_queue'
             /\ download_queue'[id].status = "CANCELLED"]_vars

\* C4: cancel_download on an entry that is queued but not active removes
\* it, emits exactly one CANCELLED status event for it and leaves the other
\* entries and active_downloads as they were; cancel_download on an id that
\* is not in the queue changes nothing and emits nothing.
C4_CancelNotActive ==
    [][\A id \in Ids : cancel_download(id) =>
          /\ (id \in DOMAIN download_queue /\ id \notin active_downloads)
             => /\ DOMAIN download_queue' = DOMAIN download_queue \ {id}
                /\ \A o \in DOMAIN download_queue \ {id} :
                      download_queue'[o] = download_queue[o]
                /\ emitted' = << [sig |-> "status", id |-> id, st |-> "CANCELLED",
                                  pct |-> -1, msg |-> << >>, txt |-> ""] >>
                /\ active_downloads' = active_downloads
          /\ id \notin DOMAIN download_queue
             => /\ emitted' = << >>
                /\ UNCHANGED << download_queue, order, active_downloads, threads, workers,
                                network_connected, clock, enq, menu, songs, releases, disk,
                                mgr, execQ, exp, task, leaf, orphans, songQ >>]_vars

\* an entry has just been cancelled out of the queue while another one stays
C4_Witness ==
    \E id \in Ids :
       /\ id \notin DOMAIN download_queue
       /\ DOMAIN download_queue # {}
       /\ emitted = << StatusEv(id, "CANCELLED", << >>) >>

\* C5: when the leaf of a Song entry runs while the song's output file is
\* on disk, the entry becomes COMPLETED with progress 100 and
\* completed_songs = 1 and the thread ends without starting the yt-dlp
\* process, whatever check_duplicates is and however often the song is
\* enqueued.
C5_ExistingFileSkipped ==
    [][\A id \in Ids : (song_begin(id) /\ ItemOf(id) \in disk) =>
          /\ id \in DOMAIN download_queue'
          /\ download_queue'[id].status = "COMPLETED"
          /\ download_queue'[id].progress = 100
          /\ download_queue'[id].completed_songs = 1
          /\ task'[id].pc = "finally"
          /\ disk' = disk]_vars

\* the same song has been enqueued twice and the second entry has just been
\* completed by the skip path
C5_Witness ==
    \E id \in DOMAIN download_queue, id2 \in DOMAIN download_queue :
       /\ id # id2
       /\ ItemOf(id) = ItemOf(id2)
       /\ KindOf(id) = "song"
       /\ download_queue[id2].status = "COMPLETED"
       /\ download_queue[id].status = "COMPLETED"
       /\ download_queue[id].completed_songs = 1
       /\ emitted = << StatusEv(id, "COMPLETED", << >>), ProgressEv(id, 100, "Already exists") >>

\* the leaves of id that returned an output path (a downloaded file or a
\* skipped duplicate)
SucceededLeaves(id) == { k \in DOMAIN leaf : k[1] = id /\ leaf[k].res = "path" }

\* no leaf of id stopped at a cancellation checkpoint and the entry is not
\* marked CANCELLED
NotCancelled(id) ==
    /\ download_queue[id].status # "CANCELLED"
    /\ \A k \in DOMAIN leaf : k[1] = id => leaf[k].res # "none"

\* C6: when the download of a Release entry reaches its end without
\* cancellation, every leaf it dispatched has finished, and the status it
\* writes is FAILED iff none of them succeeded, otherwise COMPLETED with
\* the message 'Downloaded k/n songs', k the number of leaves that
\* succeeded and n the number of selected songs in the list the download
\* read when it started (item.songs can be replaced under it by a late
\* metadata fetch).
C6_ReleaseFinalStatus ==
    [][\A id \in Ids :
          (/\ release_wait(id)
           /\ KindOf(id) \in ReleaseKinds
           /\ id \in DOMAIN download_queue
           /\ NotCancelled(id))
          => LET k == Cardinality(SucceededLeaves(id))
                 n == task[id].nsel
             IN /\ \A l \in DOMAIN leaf : l[1] = id => leaf[l].pc = "done"
                /\ \A i \in 1..Len(songQ) : songQ[i].id = id => ~songQ[i].own
                /\ download_queue'[id].status = (IF k = 0 THEN "FAILED" ELSE "COMPLETED")
                /\ emitted' = IF k = 0
                              THEN << StatusEv(id, "FAILED", << >>) >>
                              ELSE << StatusEv(id, "COMPLETED", << k, n >>) >>]_vars

\* a release has just ended COMPLETED with one of its two selected songs
\* downloaded
C6_Witness ==
    \E id \in DOMAIN download_queue :
       /\ KindOf(id) \in ReleaseKinds
       /\ id \in DOMAIN task
       /\ task[id].pc = "finally"
       /\ download_queue[id].status = "COMPLETED"
       /\ emitted = << StatusEv(id, "COMPLETED", << 1, 2 >>) >>

\* the step writes the final status of the Artist entry id
ArtistEnds(id) ==
    /\ artist_loop(id)
    /\ task[id].ri > Len(task[id].rels)
    /\ id \in DOMAIN download_queue

\* C7: an Artist entry with releases [A, B] where the download of A failed
\* and that of B succeeded ends COMPLETED with a message reporting 1 of 2
\* releases.
C7_ArtistOneOfTwo ==
    [][\A id \in Ids :
          (ArtistEnds(id) /\ task[id].relOk = << "failed", "ok" >>)
          => /\ download_queue'[id].status = "COMPLETED"
             /\ emitted' = << StatusEv(id, "COMPLETED", << 1, 2 >>) >>]_vars

\* C8: an Artist entry whose download reaches its end without cancellation
\* ends COMPLETED iff at least one of its releases succeeded, and FAILED
\* otherwise.
C8_ArtistFinalStatus ==
    [][\A id \in Ids :
          (/\ ArtistEnds(id)
           /\ download_queue[id].status # "CANCELLED"
           /\ "cancelled" \notin Range(task[id].relOk))
          => download_queue'[id].status =
                (IF "ok" \in Range(task[id].relOk) THEN "COMPLETED" ELSE "FAILED")]_vars

\* the number of songs of sl marked selected
CountSelected(sl) == Cardinality({ i \in 1..Len(sl) : sl[i].sel })

\* total_songs of the entry that add_to_queue creates: 1 for a Song, k for
\* a Release that has songs of which k >= 1 are selected
TotalAtEnqueue ==
    \A item \in Items, now \in Now :
       add_to_queue(item, now) =>
          /\ Kind(item) = "song" => download_queue'[<< item, now >>].total_songs = 1
          /\ (Kind(item) \in ReleaseKinds /\ CountSelected(songs[item]) >= 1)
             => download_queue'[<< item, now >>].total_songs = CountSelected(songs[item])

\* the entries of releases whose songs were populated when they were enqueued
Populated == { id \in DOMAIN task : KindOf(id) \in ReleaseKinds /\ InitSongs[ItemOf(id)] # << >> }

\* the songs the running download of id has submitted a leaf for
Submitted(id) == { k[2] : k \in { l \in DOMAIN leaf : l[1] = id } }

\* the selected songs of id's release, and those of them whose URL is usable
SelectedNames(id) ==
    LET sl == songs[ItemOf(id)] IN { sl[i].s : i \in { j \in 1..Len(sl) : sl[j].sel } }

UsableNames(id) == { s \in SelectedNames(id) : Url(s) # "placeholder" }

Reference(filename) ==
    LET f == CollapseSpaces(Strip(SelectSeq(filename, LAMBDA c : c \notin invalid_chars))) IN
    IF f = << >> THEN Unknown ELSE f

\* C10: sanitize_filename returns what the reference function returns, for
\* every input; the output is never empty and holds no invalid character.
C10_AgreesWithReference ==
    sanOut # << >> =>
       /\ sanOut = Reference(sanIn)
       /\ \A i \in 1..Len(sanOut) : sanOut[i] \notin invalid_chars

(***************************************************************************)
(* Properties of _check_file_exists.                                       *)
(***************************************************************************)
\* the tokens of f once punctuation is replaced by spaces and the stop
\* words are taken out wherever they occur as tokens, short tokens dropped
RefTokens(f) ==
    SelectSeq(Split(ReplacePunctuation(LowerAll(f))),
              LAMBDA w : Len(w) > 1 /\ w \notin Range(stop_words))

RECURSIVE JoinWords(_)
JoinWords(ws) ==
    IF ws = << >> THEN << >>
    ELSE IF Len(ws) = 1 THEN ws[1]
    ELSE ws[1] \o << " " >> \o JoinWords(Tail(ws))

\* the normalised name of a file: its name without the extension, tokens
\* that are stop words taken out
RefFileName(filename, ext) ==
    LET stem == SubSeq(filename, 1, Len(filename) - Len(ext)) IN
    JoinWords(SelectSeq(Split(ReplacePunctuation(LowerAll(stem))),
                        LAMBDA w : w \notin Range(stop_words)))

\* the matcher as the claim describes it
RefMatch(in) ==
    \E filename \in in.dir :
       LET ext == << "." >> \o LowerAll(in.fmt) IN
       /\ EndsWith(LowerAll(filename), ext)
       /\ \A i \in 1..Len(RefTokens(in.title)) :
             Contains(RefFileName(filename, ext), RefTokens(in.title)[i])
       /\ \A i \in 1..Len(RefTokens(in.artist)) :
             Contains(RefFileName(filename, ext), RefTokens(in.artist)[i])

\* C11: with check_duplicates on and a non-empty title and artist,
\* _check_file_exists returns true iff some file with the format's
\* extension holds every title token and every artist token of length > 1
\* that is left once punctuation and the stop words are taken out.
C11_MatcherAgrees ==
    (dupOut # "none" /\ dupIn.chk /\ dupIn.title # << >> /\ dupIn.artist # << >>)
    => ((dupOut = "true") <=> RefMatch(dupIn))

(***************************************************************************)
(* Further properties of the download manager.                             *)
(***************************************************************************)
\* the download task of entry id has run and ended
Finished(id) ==
    /\ id \in DOMAIN download_queue
    /\ id \notin DOMAIN task
    /\ id \notin active_downloads
    /\ download_queue[id].status \in { "COMPLETED", "FAILED", "CANCELLED" }

\* C12: for an entry whose download task has finished, completed_songs
\* never exceeds total_songs and equals it only if the status is COMPLETED;
\* an entry that is FAILED or CANCELLED has completed_songs < total_songs.
C12_CompletedEqualsTotal ==
    \A id \in DOMAIN download_queue :
       Finished(id) =>
          /\ download_queue[id].completed_songs <= download_queue[id].total_songs
          /\ download_queue[id].completed_songs = download_queue[id].total_songs
             => download_queue[id].status = "COMPLETED"
          /\ download_queue[id].status \in { "FAILED", "CANCELLED" }
             => download_queue[id].completed_songs < download_queue[id].total_songs

\* C13: every id in active_downloads is a key of download_queue: no
\* operation removes an entry while its id is still in the active set.
C13_ActiveInQueue == active_downloads \subseteq DOMAIN download_queue

\* C14: every entry of the queue has total_songs >= 1 at all times, also
\* after an expansion or a release or artist download has stored the size
\* of an empty resolver result.
C14_TotalAtLeastOne ==
    \A id \in DOMAIN download_queue : download_queue[id].total_songs >= 1

\* C15: every add_to_queue returns an id that no existing entry has and
\* adds exactly one new entry: the queue grows by one and no entry is
\* replaced, also when the same item is enqueued twice in one clock second.
C15_FreshId ==
    [][\A item \in Items, now \in 0..MaxClock :
          add_to_queue(item, now)
             => /\ << item, now >> \notin DOMAIN download_queue
                /\ DOMAIN download_queue' = DOMAIN download_queue \cup { << item, now >> }
                /\ \A id \in DOMAIN download_queue : download_queue'[id] = download_queue[id]]_vars

\* C16: for each PENDING entry at most one expansion task is started and
\* in flight at any time.
C16_OneExpansion ==
    \A id \in DOMAIN download_queue :
       download_queue[id].status = "PENDING" => InFlight(id) <= 1

(***************************************************************************)
(* Progress.  The manager thread and the workers of the two executors keep *)
(* running: each of their steps is taken if it stays possible.  Nothing is *)
(* assumed of the user (add_to_queue, clear_completed_downloads).          *)
(***************************************************************************)
\* every id a session can name
AllIds == { << i, c >> : i \in Items, c \in 0..MaxClock }

\* total Weight that can be enqueued where progress is checked: a
\* collection can be enqueued twice
LiveQueue == 4

\* the state after construction of a session with n workers that enqueues
\* the items of m, the artists' releases being rels when they are enqueued
SessionOf(n, m, rels) ==
    /\ download_queue = << >>
    /\ order = << >>
    /\ active_downloads = {}
    /\ threads = n
    /\ workers = threads
    /\ network_connected = TRUE
    /\ clock = 0
    /\ enq = MaxQueue - LiveQueue
    /\ menu = m
    /\ songs = InitSongs
    /\ releases = rels
    /\ disk = {}
    /\ mgr = [pc |-> "check", next |-> << >>]
    /\ lock = [holder |-> "none", waiting |-> {}]
    /\ running = TRUE
    /\ execQ = << >>
    /\ exp = EmptyBag
    /\ task = << >>
    /\ leaf = << >>
    /\ orphans = EmptyBag
    /\ songQ = << >>
    /\ emitted = << >>
    /\ ui = << >>
    /\ NoCalls

\* such a session where no release of an artist is known yet
Session(n, m) == SessionOf(n, m, [a \in ArtistItems |-> << >>])

\* a session that enqueues a release whose songs are not known yet
LiveSession(n) == Session(n, { "R2" })

InitLive == LiveSession(2)

\* the steps of such a session while the network stays up and the user
\* cancels nothing and enqueues only when the list of downloads is empty
\* (no leaf is left behind by its release download when nothing is
\* cancelled, so orphan_run has no part)
NextLive ==
    \/ \E item \in Items, now \in Now : download_queue = << >> /\ add_to_queue(item, now)
    \/ clear_completed_downloads
    \/ manager_check
    \/ manager_scan
    \/ start_download
    \/ metadata_start
    \/ \E id \in Ids : metadata_release(id)
    \/ \E id \in Ids : thread_finally(id)
    \/ \E id \in Ids : release_begin_top(id)
    \/ \E id \in Ids : release_submit(id)
    \/ \E id \in Ids : release_wait(id)
    \/ leaf_start
    \/ \E k \in DOMAIN leaf : leaf_run(k)

Fairness ==
    /\ WF_vars(manager_check)
    /\ WF_vars(manager_scan)
    /\ WF_vars(start_download)
    /\ WF_vars(metadata_start)
    /\ WF_vars(\E id \in Ids : metadata_release(id))
    /\ WF_vars(\E id \in Ids : thread_finally(id))
    /\ WF_vars(\E id \in Ids : release_begin_top(id))
    /\ WF_vars(\E id \in Ids : release_submit(id))
    /\ WF_vars(\E id \in Ids : release_wait(id))
    /\ WF_vars(leaf_start)
    /\ WF_vars(\E k \in DOMAIN leaf : leaf_run(k))
    \* the output of a yt-dlp process ends: a leaf does not read progress
    \* lines forever
    /\ WF_vars(\E k \in DOMAIN leaf : leaf_run(k) /\ leaf'[k].pc # leaf[k].pc)

SpecFair == InitLive /\ [][NextLive]_vars /\ Fairness

(***************************************************************************)
(* A session with one worker: the active set is full as soon as one entry  *)
(* is admitted.  The network stays up and the user cancels nothing.        *)
(***************************************************************************)
InitOne == LiveSession(1)

NextOne ==
    \/ \E item \in Items, now \in Now : add_to_queue(item, now)
    \/ clear_completed_downloads
    \/ manager_check
    \/ manager_scan
    \/ start_download
    \/ metadata_start
    \/ \E id \in Ids : metadata_release(id)
    \/ \E id \in Ids : thread_finally(id)
    \/ \E id \in Ids : release_begin_top(id)
    \/ \E id \in Ids : release_submit(id)
    \/ \E id \in Ids : release_wait(id)
    \/ leaf_start
    \/ \E k \in DOMAIN leaf : leaf_run(k)

SpecOne == InitOne /\ [][NextOne]_vars

Pending(id) == id \in DOMAIN download_queue /\ download_queue[id].status = "PENDING"

\* C17: with connectivity up from some point on, every PENDING entry that
\* stays in the queue eventually leaves PENDING.
C17_PendingLeaves ==
    \A id \in AllIds : Pending(id) ~> ~Pending(id)

\* number of _fetch_metadata_thread tasks of id waiting in the executor
MetaQueued(id) == Cardinality({ i \in 1..Len(execQ) : execQ[i] = << "meta", id >> })

\* C18: expansion is independent of the download slots: an iteration of
\* the dispatch loop starts the expansion of every PENDING entry that is not
\* active, also while the active set is full, and starting an expansion
\* neither adds the entry's id to the active set nor takes a slot (the ids
\* the iteration adds to the active set are QUEUED entries only).
C18_ExpansionIndependent ==
    [][manager_scan =>
          /\ \A id \in DOMAIN download_queue :
                download_queue[id].status = "PENDING" /\ id \notin active_downloads
                   => MetaQueued(id)' = MetaQueued(id) + 1 /\ id \notin active_downloads'
          /\ \A id \in active_downloads' \ active_downloads :
                download_queue[id].status = "QUEUED"]_vars

(***************************************************************************)
(* Sessions with one worker that enqueue a song or a release whose songs   *)
(* are not known yet, with every step such a session can take: the         *)
(* network comes and goes and the user cancels and clears.  The manager    *)
(* thread and the workers keep running.                                    *)
(***************************************************************************)
InitNet ==
    /\ Init
    /\ threads = 1
    /\ menu \in { { "s1" }, { "R2" } }

NextNet ==
    \/ \E item \in Items, now \in Now : add_to_queue(item, now)
    \/ \E id \in Ids : cancel_download(id)
    \/ clear_completed_downloads
    \/ network_monitor
    \/ manager_wait
    \/ manager_check
    \/ manager_scan
    \/ start_download
    \/ metadata_start
    \/ \E id \in Ids : metadata_release(id)
    \/ \E id \in Ids : song_begin(id)
    \/ \E id \in Ids : song_step(id)
    \/ \E id \in Ids : thread_finally(id)
    \/ \E id \in Ids : release_begin_top(id)
    \/ \E id \in Ids : release_submit(id)
    \/ \E id \in Ids : release_wait(id)
    \/ leaf_start
    \/ \E k \in DOMAIN leaf : leaf_run(k)
    \/ \E rec \in BagToSet(orphans) : orphan_run(rec)

FairnessNet ==
    /\ WF_vars(manager_wait)
    /\ WF_vars(manager_check)
    /\ WF_vars(manager_scan)
    /\ WF_vars(start_download)
    /\ WF_vars(metadata_start)
    /\ WF_vars(\E id \in Ids : metadata_release(id))
    /\ WF_vars(\E id \in Ids : song_begin(id))
    /\ WF_vars(\E id \in Ids : song_step(id))
    /\ WF_vars(\E id \in Ids : thread_finally(id))
    /\ WF_vars(\E id \in Ids : release_begin_top(id))
    /\ WF_vars(\E id \in Ids : release_submit(id))
    /\ WF_vars(\E id \in Ids : release_wait(id))
    /\ WF_vars(leaf_start)
    /\ WF_vars(\E k \in DOMAIN leaf : leaf_run(k))
    /\ WF_vars(\E rec \in BagToSet(orphans) : orphan_run(rec))

SpecNet == InitNet /\ [][NextNet]_vars /\ FairnessNet

\* a QUEUED entry that is not active
Waiting(id) ==
    /\ id \in DOMAIN download_queue
    /\ download_queue[id].status = "QUEUED"
    /\ id \notin active_downloads

SlotsFree == available_slots(threads, Cardinality(active_downloads)) > 0

\* a step admits an entry or submits a download or an expansion
Admits == active_downloads' \ active_downloads # {} \/ Len(execQ') > Len(execQ)

\* once the flag is up at the top of the loop, a waiting QUEUED entry is
\* admitted unless it stops waiting, the slots are taken or the flag goes
\* down again
AdmissionResumes ==
    \A id \in AllIds :
       (mgr.pc = "check" /\ network_connected /\ Waiting(id) /\ SlotsFree)
          ~> (id \in active_downloads \/ ~Waiting(id) \/ ~SlotsFree \/ ~network_connected)

\* C19 as stated: while the connectivity flag is down no step admits an
\* entry (nothing is added to the active set, no download and no expansion
\* is started) and the dispatch loop changes no entry; once the flag is up
\* again admission of QUEUED entries resumes.
C19_NoAdmissionWhileDown ==
    /\ [][~network_connected => ~Admits]_vars
    /\ [][manager_wait => UNCHANGED << download_queue, active_downloads, execQ, mgr >>]_vars
    /\ AdmissionResumes

\* C19, amended: an iteration of the dispatch loop that finds the
\* connectivity flag down goes back to the top of the loop having admitted
\* nothing and changed no entry; entries are admitted, downloads and
\* expansions started only by an iteration that found the flag up (also
\* when the flag has gone down since); once the flag is up again admission
\* of QUEUED entries resumes.
C19_DownIterationAdmitsNothing ==
    /\ [][(~network_connected /\ mgr.pc = "check") => (mgr' = mgr /\ ~Admits)]_vars
    /\ [][Admits => mgr.pc \in { "scan", "start" }]_vars
    /\ [][manager_wait => UNCHANGED << download_queue, active_downloads, execQ, mgr >>]_vars
    /\ AdmissionResumes

\* the flag is down at the top of the loop while a QUEUED entry waits and a
\* slot is free
C19_Witness ==
    /\ ~network_connected
    /\ mgr.pc = "check"
    /\ SlotsFree
    /\ \E id \in DOMAIN download_queue : Waiting(id)

\* an artist download of id has releases left to download
ReleasesLeft(id) ==
    /\ id \in DOMAIN task
    /\ KindOf(id) = "artist"
    /\ task[id].pc \in { "a_loop", "r_begin" }
    /\ task[id].ri <= Len(task[id].rels)

\* C20: COMPLETED and FAILED are terminal: once an entry has one of them,
\* no later step gives it another status (a step of add_to_queue, which
\* makes a new entry, aside), so an Artist entry is never COMPLETED while
\* releases of it are still to be downloaded.
C20_Terminal ==
    /\ [][enq' = enq =>
            \A id \in DOMAIN download_queue \cap DOMAIN download_queue' :
               download_queue[id].status \in { "COMPLETED", "FAILED" }
                  => download_queue'[id].status = download_queue[id].status]_vars
    /\ [](\A id \in DOMAIN download_queue :
             ReleasesLeft(id) => download_queue[id].status # "COMPLETED")

\* the entry of id is marked CANCELLED while its id is in the active set
MarkedCancelled(id) == id \in active_downloads /\ IsCancelled(download_queue, id)

\* a cancellation checkpoint of the task of id has fired: it emits the
\* CANCELLED status
CancelObserved(id) ==
    \E i \in 1..Len(emitted) : emitted[i] = StatusEv(id, "CANCELLED", << >>)

\* C21: after an active entry is marked CANCELLED its task eventually
\* observes the mark at a cancellation checkpoint (and so stops the fetch
\* and starts none for the remaining children), and the id is eventually
\* removed from the active set.
C21_CancelTakesEffect ==
    \A id \in AllIds :
       /\ MarkedCancelled(id) ~> CancelObserved(id)
       /\ MarkedCancelled(id) ~> (id \notin active_downloads)

(***************************************************************************)
(* A session with two workers that enqueues a song and a release whose     *)
(* songs are not known yet.  The network stays up and the user cancels     *)
(* nothing and enqueues only when the list of downloads is empty.  The     *)
(* manager thread and the workers keep running, and yt-dlp processes end.  *)
(***************************************************************************)
InitMix == Session(2, { "s1", "R2" })

NextMix ==
    \/ \E item \in Items, now \in Now : download_queue = << >> /\ add_to_queue(item, now)
    \/ clear_completed_downloads
    \/ manager_check
    \/ manager_scan
    \/ start_download
    \/ metadata_start
    \/ \E id \in Ids : metadata_release(id)
    \/ \E id \in Ids : song_begin(id)
    \/ \E id \in Ids : song_step(id)
    \/ \E id \in Ids : thread_finally(id)
    \/ \E id \in Ids : release_begin_top(id)
    \/ \E id \in Ids : release_submit(id)
    \/ \E id \in Ids : release_wait(id)
    \/ leaf_start
    \/ \E k \in DOMAIN leaf : leaf_run(k)

FairnessMix ==
    /\ Fairness
    /\ WF_vars(\E id \in Ids : song_begin(id))
    /\ WF_vars(\E id \in Ids : song_step(id))
    /\ WF_vars(\E id \in Ids : song_step(id) /\ task'[id].pc # task[id].pc)

SpecMix == InitMix /\ [][NextMix]_vars /\ FairnessMix

\* C22: with connectivity up and download tasks that finish, every QUEUED
\* entry that is not cancelled (a cancelled one that is not active leaves
\* the queue) is eventually admitted: its id is added to the active set.
C22_QueuedAdmitted ==
    \A id \in AllIds : Waiting(id) ~> (id \in active_downloads \/ id \notin DOMAIN download_queue)

(***************************************************************************)
(* A session with two workers that enqueues an artist whose releases and   *)
(* their songs are known: the first release has two songs.  The network    *)
(* stays up and the user enqueues only when the list of downloads is empty.*)
(***************************************************************************)
KnownReleases ==
    [a \in ArtistItems |->
        << RelRec("Rc", << SongRec("c1", TRUE), SongRec("c2", TRUE) >>),
           RelRec("Rd", << SongRec("d1", TRUE) >>) >>]

InitArt == SessionOf(2, { "A2" }, KnownReleases)

NextArt ==
    \/ \E item \in Items, now \in Now : download_queue = << >> /\ add_to_queue(item, now)
    \/ \E id \in Ids : cancel_download(id)
    \/ manager_check
    \/ manager_scan
    \/ start_download
    \/ \E id \in Ids : thread_finally(id)
    \/ leaf_start
    \/ \E k \in DOMAIN leaf : leaf_run(k)
    \/ \E rec \in BagToSet(orphans) : orphan_run(rec)
    \/ \E id \in Ids : release_submit(id)
    \/ \E id \in Ids : release_wait(id)
    \/ \E id \in Ids : artist_begin(id)
    \/ \E id \in Ids : artist_loop(id)
    \/ \E id \in Ids : artist_release_begin(id)

SpecArt == InitArt /\ [][NextArt]_vars

\* leaf fetches of id that an earlier release download submitted and left
\* behind, still waiting in the per-song pool or running
LeftBehind(id) ==
    \/ \E rec \in BagToSet(orphans) : rec.id = id
    \/ \E i \in 1..Len(songQ) : songQ[i].id = id /\ ~songQ[i].own

\* C23: within one Artist entry the releases are downloaded strictly one
\* after another: while the artist download runs, no leaf fetch of a release
\* is submitted or running while a leaf fetch of an earlier release of the
\* entry is still pending or running.
C23_ReleasesInTurn ==
    \A id \in DOMAIN task :
       KindOf(id) = "artist" /\ LeavesOf(id) # {} => ~LeftBehind(id)

\* C24: for an entry that is neither cancelled nor failed the progress
\* values written to the entry never decrease (a step of add_to_queue,
\* which makes a new entry, aside), also for a Release or Artist entry
\* whose leaves report the tool's percentages.
C24_ProgressMonotone ==
    [][enq' = enq =>
          \A id \in DOMAIN download_queue \cap DOMAIN download_queue' :
             (/\ download_queue[id].status \notin { "CANCELLED", "FAILED" }
              /\ download_queue'[id].status \notin { "CANCELLED", "FAILED" })
                => download_queue'[id].progress >= download_queue[id].progress]_vars

(***************************************************************************)
(* Sessions that enqueue a song and in which the thread count is changed   *)
(* in the settings dialog while the manager runs.                          *)
(***************************************************************************)
InitSet ==
    /\ Init
    /\ menu = { "s1" }

NextSet ==
    \/ \E item \in Items, now \in Now : add_to_queue(item, now)
    \/ \E id \in Ids : cancel_download(id)
    \/ \E n \in 1..MaxThreads : save_settings(n)
    \/ manager_check
    \/ manager_scan
    \/ start_download
    \/ \E id \in Ids : song_begin(id)
    \/ \E id \in Ids : song_step(id)
    \/ \E id \in Ids : thread_finally(id)

SpecSet == InitSet /\ [][NextSet]_vars

\* C25: when the thread count is changed at runtime to M both worker pools
\* get capacity M, so that every admitted entry has a top-level worker to
\* run on, and the dispatch loop admits nothing beyond M.
C25_PoolsFollowThreads ==
    /\ [](workers = threads)
    /\ [](Cardinality(active_downloads) <= workers)
    /\ [][manager_scan /\ active_downloads' # active_downloads
             => Cardinality(active_downloads') <= threads]_vars

\* C26: in every reachable state an entry carries an error message only
\* while its status is FAILED.
C26_ErrorOnlyWhenFailed ==
    \A id \in DOMAIN download_queue :
       download_queue[id].err => download_queue[id].status = "FAILED"

(***************************************************************************)
(* Sessions that enqueue a song and in which the user presses "Cancel      *)
(* All" or closes the window.  A session is followed while the manager     *)
(* runs and the main thread is not blocked: closeEvent accepts the close   *)
(* once shutdown has returned, and a blocked main thread handles no        *)
(* further event.                                                          *)
(***************************************************************************)
Alive == running /\ lock.holder = "none"

InitLock ==
    /\ Init
    /\ menu = { "s1" }

NextLock ==
    \/ Alive /\ \E item \in Items, now \in Now : add_to_queue(item, now)
    \/ Alive /\ \E id \in Ids : cancel_download(id)
    \/ Alive /\ cancel_all_downloads
    \/ Alive /\ shutdown
    \/ Alive /\ manager_check
    \/ Alive /\ manager_scan
    \/ Alive /\ start_download
    \/ Alive /\ \E id \in Ids : song_begin(id)
    \/ Alive /\ \E id \in Ids : song_step(id)
    \/ Alive /\ \E id \in Ids : thread_finally(id)

SpecLock == InitLock /\ [][NextLock]_vars

\* C27: shutdown and "Cancel All" never try to acquire the manager's lock
\* on the thread that already holds it: called with ids to cancel, each
\* leaves those ids cancelled and returns with the lock free.
C27_NoSelfDeadlock ==
    /\ [](lock.holder \notin lock.waiting)
    /\ [][shutdown \/ cancel_all_downloads
             => /\ lock'.holder = "none"
                /\ \A id \in active_downloads : IsCancelled(download_queue', id)]_vars

\* C28: an entry whose id is not in the ActiveSet is not DOWNLOADING or
\* PROCESSING: a finished download task leaves a terminal status behind.
C28_IdleNotDownloading ==
    \A id \in DOMAIN download_queue :
       id \notin active_downloads
          => download_queue[id].status \notin { "DOWNLOADING", "PROCESSING" }

\* a leaf fetch submitted to the per-song pool for id is waiting or running
LeafAlive(id) ==
    \/ \E k \in DOMAIN leaf : k[1] = id /\ leaf[k].pc # "done"
    \/ \E rec \in BagToSet(orphans) : rec.id = id
    \/ \E i \in 1..Len(songQ) : songQ[i].id = id

\* C29: when an id leaves the ActiveSet no leaf fetch submitted for the entry
\* is still pending or running.
C29_NoLeafAfterRelease ==
    [][\A id \in active_downloads \ active_downloads' : ~LeafAlive(id)']_vars

\* an entry whose download task has been started by _start_download: the
\* task is waiting in the executor or running, or the entry carries a
\* status that only a started entry gets
Started(id) ==
    \/ id \in DOMAIN task
    \/ \E i \in 1..Len(execQ) : execQ[i] = << "dl", id >>
    \/ download_queue[id].status \in { "DOWNLOADING", "PROCESSING", "COMPLETED", "FAILED" }

\* C30: each entry is admitted at most once: after its download task has
\* been started its status is never set back to QUEUED (in a step other
\* than a new add_to_queue under the same id), and the dispatch loop never
\* adds its id to the ActiveSet or starts a task for it again.
C30_AdmittedOnce ==
    [][enq' = enq =>
          \A id \in DOMAIN download_queue \cap DOMAIN download_queue' :
             Started(id) =>
                /\ download_queue[id].status # "QUEUED"
                      => download_queue'[id].status # "QUEUED"
                /\ id \notin active_downloads' \ active_downloads
                /\ start_download => Head(mgr.next) # id]_vars

====
